---------------------------- MODULE Spec2Model ----------------------------
(***************************************************************************)
(* Model of sfc8-cycles.c: the seed scan that traces every seed of the     *)
(* sfc8 generator through a bit vector and keeps the bit vectors of the    *)
(* ARRAYS_TO_STORE longest trajectories found so far.                      *)
(*                                                                         *)
(* The program's state space (2^32 states, 2^24 seeds) is scaled down: the *)
(* scan runs over a small set of generator states, and the generator is a  *)
(* transition function on that set, chosen in the initial state.  Heap     *)
(* blocks are identified by the order of their allocation; a bit vector is *)
(* the part of the 2^26-word array that the states of the run can touch,   *)
(* each 64-bit word being the set of its set bit positions.                *)
(***************************************************************************)
EXTENDS Integers, Sequences, FiniteSets, TLC

VARIABLES
    gen,                      \* the generator: state -> next state
    pc,                       \* "start", "scan", "trace", "update", "done", "exit1"
    seed,                     \* main's loop counter
    state,                    \* test_seed_for_cycle: sfc8_t state
    length_counter,           \* test_seed_for_cycle: size_t length_counter
    collision,                \* test_seed_for_cycle: bool collision
    cycle_bit_array,          \* uint64_t* cycle_bit_array
    tested_cycle_bit_arrays,  \* uint64_t* tested_cycle_bit_arrays[ARRAYS_TO_STORE]
    saved_cycle_lengths,      \* size_t saved_cycle_lengths[ARRAYS_TO_STORE]
    saved_array_count,        \* unsigned saved_array_count
    mem,                      \* heap: block id -> contents of the bit vector
    freed,                    \* the block ids handed to free()
    out                       \* what test_seed_for_cycle returned to main, per seed

vars == <<gen, pc, seed, state, length_counter, collision, cycle_bit_array,
          tested_cycle_bit_arrays, saved_cycle_lengths, saved_array_count,
          mem, freed, out>>

---------------------------------------------------------------------------
(* Constants of the program and bounds of the model *)

ARRAYS_TO_STORE == 7

NULL == 0

\* Number of seeds scanned by Spec (the program scans 2^24).
NumSeeds == 9

\* Number of states of the generators of FnSpec.
FnStates == 4

Ranks == 0 .. (ARRAYS_TO_STORE - 1)

---------------------------------------------------------------------------
(* Generator states and their keys *)

\* The state test_seed_for_cycle builds from a seed.
seed_state(s) ==
    [a |-> s % 256, b |-> (s \div 256) % 256, c |-> (s \div 65536) % 256, d |-> 1]

\* The four bytes packed little-endian into one 32-bit key.
encode_state(st) ==
    st.a + (st.b * 256) + (st.c * 65536) + (st.d * 16777216)

WORD_INDEX(value) == value \div 64

BIT_INDEX(value) == value % 64

\* The states of the run, and what the program derives from their number.
States == DOMAIN gen

POSSIBLE_STATES == Cardinality(States)

\* main scans every seed whose state (a, b, c, 1) is a state of the run.
SeedLimit == Cardinality({st \in States : st.d = 1})

\* The words of a bit vector that a state of the run indexes.
Words == {WORD_INDEX(encode_state(st)) : st \in States}

---------------------------------------------------------------------------
(* Bit vectors *)

ZeroVector == [w \in Words |-> {}]

OnesVector == [w \in Words |-> 0 .. 63]

\* malloc does not initialise the block: its contents are arbitrary.
MallocContents == {ZeroVector, OnesVector}

\* Mutant: the word is read back after the bit was stored into it.
test_and_set_bit_reads_after_store(array, position) ==
    LET bit_word == BIT_INDEX(position)
        word_index == WORD_INDEX(position)
        array_word == array[word_index]
    IN  [array  |-> [array EXCEPT ![word_index] = array_word \cup {bit_word}],
         result |-> bit_word \in (array_word \cup {bit_word})]

\* Mutant: the word with the bit set is computed but never stored.
test_and_set_bit_no_store(array, position) ==
    LET bit_word == BIT_INDEX(position)
        word_index == WORD_INDEX(position)
        array_word == array[word_index]
    IN  [array  |-> array,
         result |-> bit_word \in array_word]

\* Mutant: the word is overwritten with the one bit.
test_and_set_bit_overwrites_word(array, position) ==
    LET bit_word == BIT_INDEX(position)
        word_index == WORD_INDEX(position)
        array_word == array[word_index]
    IN  [array  |-> [array EXCEPT ![word_index] = {bit_word}],
         result |-> bit_word \in array_word]

test_bit(array, position) ==
    LET bit_word == BIT_INDEX(position)
        word_index == WORD_INDEX(position)
        array_word == array[word_index]
    IN  bit_word \in array_word

\* The array after the call, and the value returned.
test_and_set_bit(array, position) ==
    LET bit_word == BIT_INDEX(position)
        word_index == WORD_INDEX(position)
        array_word == array[word_index]
    IN  [array  |-> [array EXCEPT ![word_index] = array_word \cup {bit_word}],
         result |-> bit_word \in array_word]

\* Block ids are handed out in order of allocation and never reused.
NextBlock == Cardinality(DOMAIN mem) + 1

Live == DOMAIN mem \ freed

---------------------------------------------------------------------------
(* The cache of the longest trajectories *)

\* Mutant: the loop stops one array early (array_idx < saved_array_count - 1).
check_existing_arrays_skips_last(st) ==
    LET encoded_state == encode_state(st)
        hits == {array_idx \in 0 .. (saved_array_count - 2) :
                    test_bit(mem[tested_cycle_bit_arrays[array_idx]], encoded_state)}
    IN  IF hits = {}
        THEN [found |-> FALSE,
              idx   |-> IF saved_array_count <= 1 THEN 0 ELSE saved_array_count - 2]
        ELSE [found |-> TRUE,
              idx   |-> CHOOSE i \in hits : \A j \in hits : i <= j]

\* Mutant: the loop does not return at the first hit, so the index left in
\* *ret_array_idx is that of the last saved array.
check_existing_arrays_last_index(st) ==
    LET encoded_state == encode_state(st)
        hits == {array_idx \in 0 .. (saved_array_count - 1) :
                    test_bit(mem[tested_cycle_bit_arrays[array_idx]], encoded_state)}
    IN  [found |-> hits # {},
         idx   |-> IF saved_array_count = 0 THEN 0 ELSE saved_array_count - 1]

\* The first saved array that has the state's bit set, if any.  idx is what
\* the loop leaves in *ret_array_idx.
check_existing_arrays(st) ==
    LET encoded_state == encode_state(st)
        hits == {array_idx \in 0 .. (saved_array_count - 1) :
                    test_bit(mem[tested_cycle_bit_arrays[array_idx]], encoded_state)}
    IN  IF hits = {}
        THEN [found |-> FALSE,
              idx   |-> IF saved_array_count = 0 THEN 0 ELSE saved_array_count - 1]
        ELSE [found |-> TRUE,
              idx   |-> CHOOSE i \in hits : \A j \in hits : i <= j]

\* Mutant: saved_array_count is not incremented when an empty slot is taken.
RECURSIVE update_loop_no_count(_, _)
update_loop_no_count(position, u) ==
    IF position >= ARRAYS_TO_STORE THEN u
    ELSE
    LET compared_cycle_length == u.lengths[position] IN
    IF u.current_cycle_length > compared_cycle_length
    THEN LET prev_bit_array == u.arrays[position]
             placed == [u EXCEPT !.did_updates = TRUE,
                                 !.arrays[position] = u.array_to_consider,
                                 !.lengths[position] = u.current_cycle_length]
         IN  IF prev_bit_array # NULL
             THEN IF position = ARRAYS_TO_STORE - 1
                  THEN update_loop_no_count(position + 1,
                           [placed EXCEPT !.freed = @ \cup {prev_bit_array}])
                  ELSE update_loop_no_count(position + 1,
                           [placed EXCEPT !.array_to_consider = prev_bit_array,
                                          !.current_cycle_length = compared_cycle_length])
             ELSE placed
    ELSE update_loop_no_count(position + 1, u)

\* Mutant: the comparison is reversed (current_cycle_length < compared_cycle_length).
RECURSIVE update_loop_less(_, _)
update_loop_less(position, u) ==
    IF position >= ARRAYS_TO_STORE THEN u
    ELSE
    LET compared_cycle_length == u.lengths[position] IN
    IF u.current_cycle_length < compared_cycle_length
    THEN LET prev_bit_array == u.arrays[position]
             placed == [u EXCEPT !.did_updates = TRUE,
                                 !.arrays[position] = u.array_to_consider,
                                 !.lengths[position] = u.current_cycle_length]
         IN  IF prev_bit_array # NULL
             THEN IF position = ARRAYS_TO_STORE - 1
                  THEN update_loop_less(position + 1,
                           [placed EXCEPT !.freed = @ \cup {prev_bit_array}])
                  ELSE update_loop_less(position + 1,
                           [placed EXCEPT !.array_to_consider = prev_bit_array,
                                          !.current_cycle_length = compared_cycle_length])
             ELSE [placed EXCEPT !.count = @ + 1]
    ELSE update_loop_less(position + 1, u)

\* Mutant: a record is also displaced by a candidate of its own length (>=).
RECURSIVE update_loop_greater_equal(_, _)
update_loop_greater_equal(position, u) ==
    IF position >= ARRAYS_TO_STORE THEN u
    ELSE
    LET compared_cycle_length == u.lengths[position] IN
    IF u.current_cycle_length >= compared_cycle_length
    THEN LET prev_bit_array == u.arrays[position]
             placed == [u EXCEPT !.did_updates = TRUE,
                                 !.arrays[position] = u.array_to_consider,
                                 !.lengths[position] = u.current_cycle_length]
         IN  IF prev_bit_array # NULL
             THEN IF position = ARRAYS_TO_STORE - 1
                  THEN update_loop_greater_equal(position + 1,
                           [placed EXCEPT !.freed = @ \cup {prev_bit_array}])
                  ELSE update_loop_greater_equal(position + 1,
                           [placed EXCEPT !.array_to_consider = prev_bit_array,
                                          !.current_cycle_length = compared_cycle_length])
             ELSE [placed EXCEPT !.count = @ + 1]
    ELSE update_loop_greater_equal(position + 1, u)

\* Mutant: the displaced record is dropped where it stood, without competing
\* for the ranks below.
RECURSIVE update_loop_no_cascade(_, _)
update_loop_no_cascade(position, u) ==
    IF position >= ARRAYS_TO_STORE THEN u
    ELSE
    LET compared_cycle_length == u.lengths[position] IN
    IF u.current_cycle_length > compared_cycle_length
    THEN LET prev_bit_array == u.arrays[position]
             placed == [u EXCEPT !.did_updates = TRUE,
                                 !.arrays[position] = u.array_to_consider,
                                 !.lengths[position] = u.current_cycle_length]
         IN  IF prev_bit_array # NULL
             THEN IF position = ARRAYS_TO_STORE - 1
                  THEN update_loop_no_cascade(position + 1,
                           [placed EXCEPT !.freed = @ \cup {prev_bit_array}])
                  ELSE placed
             ELSE [placed EXCEPT !.count = @ + 1]
    ELSE update_loop_no_cascade(position + 1, u)

\* Mutant: the displaced vector moves down with the length of the record that
\* displaced it.
RECURSIVE update_loop_keeps_length(_, _)
update_loop_keeps_length(position, u) ==
    IF position >= ARRAYS_TO_STORE THEN u
    ELSE
    LET compared_cycle_length == u.lengths[position] IN
    IF u.current_cycle_length > compared_cycle_length
    THEN LET prev_bit_array == u.arrays[position]
             placed == [u EXCEPT !.did_updates = TRUE,
                                 !.arrays[position] = u.array_to_consider,
                                 !.lengths[position] = u.current_cycle_length]
         IN  IF prev_bit_array # NULL
             THEN IF position = ARRAYS_TO_STORE - 1
                  THEN update_loop_keeps_length(position + 1,
                           [placed EXCEPT !.freed = @ \cup {prev_bit_array}])
                  ELSE update_loop_keeps_length(position + 1,
                           [placed EXCEPT !.array_to_consider = prev_bit_array])
             ELSE [placed EXCEPT !.count = @ + 1]
    ELSE update_loop_keeps_length(position + 1, u)

\* One iteration of the for loop of update_tested_cycles at `position`, and
\* the iterations after it.  u holds the function's locals and the globals
\* it writes; u.freed are the blocks it has handed to free().
RECURSIVE update_loop(_, _)
update_loop(position, u) ==
    IF position >= ARRAYS_TO_STORE THEN u
    ELSE
    LET compared_cycle_length == u.lengths[position] IN
    IF u.current_cycle_length > compared_cycle_length
    THEN LET prev_bit_array == u.arrays[position]
             placed == [u EXCEPT !.did_updates = TRUE,
                                 !.arrays[position] = u.array_to_consider,
                                 !.lengths[position] = u.current_cycle_length]
         IN  IF prev_bit_array # NULL
             THEN IF position = ARRAYS_TO_STORE - 1
                  THEN update_loop(position + 1,
                           [placed EXCEPT !.freed = @ \cup {prev_bit_array}])
                  ELSE update_loop(position + 1,
                           [placed EXCEPT !.array_to_consider = prev_bit_array,
                                          !.current_cycle_length = compared_cycle_length])
             ELSE [placed EXCEPT !.count = @ + 1]
    ELSE update_loop(position + 1, u)

\* Mutant: the shortcut for an empty cache is taken whenever the cache is not
\* full, storing the new record in the first empty slot whatever its length.
update_tested_cycles_appends(cycle_length) ==
    LET entry == [arrays |-> tested_cycle_bit_arrays,
                  lengths |-> saved_cycle_lengths,
                  count |-> saved_array_count,
                  did_updates |-> FALSE,
                  array_to_consider |-> cycle_bit_array,
                  current_cycle_length |-> cycle_length,
                  freed |-> {}]
    IN  IF saved_array_count < ARRAYS_TO_STORE
        THEN [entry EXCEPT !.count = saved_array_count + 1,
                           !.arrays[saved_array_count] = cycle_bit_array,
                           !.lengths[saved_array_count] = cycle_length,
                           !.did_updates = TRUE]
        ELSE update_loop(0, entry)

update_tested_cycles(cycle_length) ==
    LET entry == [arrays |-> tested_cycle_bit_arrays,
                  lengths |-> saved_cycle_lengths,
                  count |-> saved_array_count,
                  did_updates |-> FALSE,
                  array_to_consider |-> cycle_bit_array,
                  current_cycle_length |-> cycle_length,
                  freed |-> {}]
    IN  IF saved_array_count = 0
        THEN [entry EXCEPT !.count = 1,
                           !.arrays[0] = cycle_bit_array,
                           !.lengths[0] = cycle_length,
                           !.did_updates = TRUE]
        ELSE update_loop(0, entry)

---------------------------------------------------------------------------
(* main and test_seed_for_cycle *)

\* main: the saved arrays are set to NULL, then the first vector is
\* allocated; if malloc fails main returns 1.
MainAlloc ==
    /\ pc = "start"
    /\ \/ \E contents \in MallocContents :
            /\ mem' = [b \in {NextBlock} |-> contents]
            /\ cycle_bit_array' = NextBlock
            /\ pc' = "scan"
       \/ /\ pc' = "exit1"
          /\ UNCHANGED <<mem, cycle_bit_array>>
    /\ UNCHANGED <<gen, seed, state, length_counter, collision,
                   tested_cycle_bit_arrays, saved_cycle_lengths,
                   saved_array_count, freed, out>>

\* Mutant: the scratch vector is not cleared before the trace loop.
TestSeedLookup_no_memset ==
    /\ pc = "scan"
    /\ seed < SeedLimit
    /\ LET st == seed_state(seed)
           found == check_existing_arrays(st)
       IN  /\ state' = st
           /\ IF saved_array_count > 0 /\ found.found
              THEN /\ out' = Append(out, [seed |-> seed,
                                          length |-> saved_cycle_lengths[found.idx],
                                          was_on_known_cycle |-> TRUE])
                   /\ seed' = seed + 1
                   /\ UNCHANGED <<pc, mem, length_counter, collision>>
              ELSE /\ length_counter' = 0
                   /\ collision' = FALSE
                   /\ pc' = "trace"
                   /\ UNCHANGED <<mem, out, seed>>
    /\ UNCHANGED <<gen, cycle_bit_array, tested_cycle_bit_arrays,
                   saved_cycle_lengths, saved_array_count, freed>>

\* test_seed_for_cycle up to its trace loop: the seed's state is looked up in
\* the saved arrays; on a hit the function returns the saved length, on a
\* miss it clears the scratch vector and enters the loop.
TestSeedLookup ==
    /\ pc = "scan"
    /\ seed < SeedLimit
    /\ LET st == seed_state(seed)
           found == check_existing_arrays(st)
       IN  /\ state' = st
           /\ IF saved_array_count > 0 /\ found.found
              THEN /\ out' = Append(out, [seed |-> seed,
                                          length |-> saved_cycle_lengths[found.idx],
                                          was_on_known_cycle |-> TRUE])
                   /\ seed' = seed + 1
                   /\ UNCHANGED <<pc, mem, length_counter, collision>>
              ELSE /\ mem' = [mem EXCEPT ![cycle_bit_array] = ZeroVector]
                   /\ length_counter' = 0
                   /\ collision' = FALSE
                   /\ pc' = "trace"
                   /\ UNCHANGED <<out, seed>>
    /\ UNCHANGED <<gen, cycle_bit_array, tested_cycle_bit_arrays,
                   saved_cycle_lengths, saved_array_count, freed>>

\* One iteration of the trace loop, with the loop test that follows it.
TraceStep ==
    /\ pc = "trace"
    /\ length_counter < POSSIBLE_STATES
    /\ LET r == test_and_set_bit(mem[cycle_bit_array], encode_state(state))
       IN  /\ mem' = [mem EXCEPT ![cycle_bit_array] = r.array]
           /\ collision' = r.result
           /\ IF r.result
              THEN /\ pc' = "update"
                   /\ UNCHANGED <<state, length_counter>>
              ELSE /\ state' = gen[state]
                   /\ length_counter' = length_counter + 1
                   /\ pc' = IF length_counter + 1 < POSSIBLE_STATES
                            THEN "trace" ELSE "update"
    /\ UNCHANGED <<gen, seed, cycle_bit_array, tested_cycle_bit_arrays,
                   saved_cycle_lengths, saved_array_count, freed, out>>

\* Mutant: no new vector is allocated after the cache took the scratch one.
UpdateAndReturn_keeps_scratch ==
    /\ pc = "update"
    /\ LET u == update_tested_cycles(length_counter)
       IN  /\ tested_cycle_bit_arrays' = u.arrays
           /\ saved_cycle_lengths' = u.lengths
           /\ saved_array_count' = u.count
           /\ freed' = freed \cup u.freed
           /\ pc' = "scan"
           /\ seed' = seed + 1
           /\ out' = Append(out, [seed |-> seed,
                                  length |-> length_counter,
                                  was_on_known_cycle |-> FALSE])
           /\ UNCHANGED <<mem, cycle_bit_array>>
    /\ UNCHANGED <<gen, state, length_counter, collision>>

\* Mutant: the result of malloc is not checked; the function returns with
\* cycle_bit_array = NULL and the scan goes on.
UpdateAndReturn_unchecked_malloc ==
    /\ pc = "update"
    /\ LET u == update_tested_cycles(length_counter)
       IN  /\ tested_cycle_bit_arrays' = u.arrays
           /\ saved_cycle_lengths' = u.lengths
           /\ saved_array_count' = u.count
           /\ freed' = freed \cup u.freed
           /\ pc' = "scan"
           /\ seed' = seed + 1
           /\ out' = Append(out, [seed |-> seed,
                                  length |-> length_counter,
                                  was_on_known_cycle |-> FALSE])
           /\ IF u.did_updates
              THEN \/ \E contents \in MallocContents :
                        /\ mem' = [b \in DOMAIN mem \cup {NextBlock} |->
                                      IF b \in DOMAIN mem THEN mem[b] ELSE contents]
                        /\ cycle_bit_array' = NextBlock
                   \/ /\ cycle_bit_array' = NULL
                      /\ UNCHANGED mem
              ELSE UNCHANGED <<mem, cycle_bit_array>>
    /\ UNCHANGED <<gen, state, length_counter, collision>>

\* The rest of test_seed_for_cycle: the cache is updated with the length
\* found; if it took the scratch vector a new one is allocated (exit(1) if
\* malloc fails); the length is returned to main.
UpdateAndReturn ==
    /\ pc = "update"
    /\ LET u == update_tested_cycles(length_counter)
       IN  /\ tested_cycle_bit_arrays' = u.arrays
           /\ saved_cycle_lengths' = u.lengths
           /\ saved_array_count' = u.count
           /\ freed' = freed \cup u.freed
           /\ IF u.did_updates
              THEN \/ \E contents \in MallocContents :
                        /\ mem' = [b \in DOMAIN mem \cup {NextBlock} |->
                                      IF b \in DOMAIN mem THEN mem[b] ELSE contents]
                        /\ cycle_bit_array' = NextBlock
                        /\ pc' = "scan"
                        /\ seed' = seed + 1
                        /\ out' = Append(out, [seed |-> seed,
                                               length |-> length_counter,
                                               was_on_known_cycle |-> FALSE])
                   \/ /\ cycle_bit_array' = NULL
                      /\ pc' = "exit1"
                      /\ UNCHANGED <<mem, seed, out>>
              ELSE /\ pc' = "scan"
                   /\ seed' = seed + 1
                   /\ out' = Append(out, [seed |-> seed,
                                          length |-> length_counter,
                                          was_on_known_cycle |-> FALSE])
                   /\ UNCHANGED <<mem, cycle_bit_array>>
    /\ UNCHANGED <<gen, state, length_counter, collision>>

\* main after the loop: the scratch vector and the saved arrays are freed.
MainExit ==
    /\ pc = "scan"
    /\ seed >= SeedLimit
    /\ freed' = freed \cup {cycle_bit_array}
                      \cup {tested_cycle_bit_arrays[i] : i \in 0 .. (saved_array_count - 1)}
    /\ pc' = "done"
    /\ UNCHANGED <<gen, seed, state, length_counter, collision, cycle_bit_array,
                   tested_cycle_bit_arrays, saved_cycle_lengths,
                   saved_array_count, mem, out>>

Next ==
    \/ MainAlloc
    \/ TestSeedLookup
    \/ TraceStep
    \/ UpdateAndReturn
    \/ MainExit

---------------------------------------------------------------------------
(* The generators of the runs *)

St(x, y) == [a |-> x, b |-> 0, c |-> 0, d |-> y]

\* The state before main's first malloc, for a given generator.
InitWith(g) ==
    /\ gen = g
    /\ pc = "start"
    /\ seed = 0
    /\ state = seed_state(0)
    /\ length_counter = 0
    /\ collision = FALSE
    /\ cycle_bit_array = NULL
    /\ tested_cycle_bit_arrays = [i \in Ranks |-> NULL]
    /\ saved_cycle_lengths = [i \in Ranks |-> 0]
    /\ saved_array_count = 0
    /\ mem = <<>>
    /\ freed = {}
    /\ out = <<>>

\* Spec: invertible generators, as sfc8_advance is.  The states are those of
\* the seeds 0 .. NumSeeds-1 (d = 1) and one more state per seed (d = 2).
\* The seeds are cut into blocks of consecutive seeds; each block is one
\* cycle, which also runs through the d = 2 state of its first seed when
\* that seed is in `fills`.  The runs take every cutting without fills, and
\* every choice of fills for the cuttings with at most one block of two seeds.
SpecStates == {St(x, y) : x \in 0 .. (NumSeeds - 1), y \in {1, 2}}

BlockStart(x, cuts) == CHOOSE s \in cuts \cup {0} :
                          s <= x /\ \A t \in cuts \cup {0} : t <= x => t <= s

BlockEnd(x, cuts) == CHOOSE e \in x .. (NumSeeds - 1) :
                        /\ \A t \in cuts : ~(x < t /\ t <= e)
                        /\ (e = NumSeeds - 1 \/ e + 1 \in cuts)

BlockGen(cuts, fills) ==
    [st \in SpecStates |->
        IF st.d = 1
        THEN IF st.a < BlockEnd(st.a, cuts) THEN St(st.a + 1, 1)
             ELSE IF BlockStart(st.a, cuts) \in fills
                  THEN St(BlockStart(st.a, cuts), 2)
                  ELSE St(BlockStart(st.a, cuts), 1)
        ELSE IF st.a \in fills THEN St(st.a, 1) ELSE st]

\* One cycle through every state of the run.
FullCycleGen ==
    [st \in SpecStates |->
        IF st.a < NumSeeds - 1 THEN St(st.a + 1, st.d)
        ELSE St(0, 3 - st.d)]

SpecGens ==
    {BlockGen(cuts, fills) : <<cuts, fills>> \in
        {cf \in (SUBSET (1 .. (NumSeeds - 1))) \X (SUBSET (0 .. (NumSeeds - 1))) :
            /\ cf[2] \subseteq cf[1] \cup {0}
            /\ (cf[2] = {} \/ Cardinality(cf[1]) >= NumSeeds - 2)}}
    \cup {FullCycleGen}

Init == \E g \in SpecGens : InitWith(g)

Spec == Init /\ [][Next]_vars

\* FnSpec: every function on a domain of FnStates states, all of them seeds;
\* such a generator may have states that lead into a cycle without being on it.
FnDomain == {St(x, 1) : x \in 0 .. (FnStates - 1)}

InitFn == \E g \in [FnDomain -> FnDomain] : InitWith(g)

FnSpec == InitFn /\ [][Next]_vars

---------------------------------------------------------------------------
(* What the claims speak of *)

\* The states visited from st, st included.
RECURSIVE Reach(_, _)
Reach(st, seen) == IF st \in seen THEN seen ELSE Reach(gen[st], seen \cup {st})

Trajectory(st) == Reach(st, {})

\* The state reached from st by n advances.
RECURSIVE Iter(_, _)
Iter(st, n) == IF n = 0 THEN st ELSE gen[Iter(st, n - 1)]

\* The cycle that the trajectory of st enters.
CycleOf(st) == Trajectory(Iter(st, POSSIBLE_STATES))

SameCycle(s1, s2) == CycleOf(seed_state(s1)) = CycleOf(seed_state(s2))

\* The positions in `out` of the seeds main prints.
Printed == {i \in 1 .. Len(out) : ~out[i].was_on_known_cycle}

\* The saved array of rank i, and whether it has the bit of a state.
Fingerprint(i) == mem[tested_cycle_bit_arrays[i]]

Retained == 0 .. (saved_array_count - 1)

HasState(i, st) == test_bit(Fingerprint(i), encode_state(st))

\* The number of bits set in a vector.
RECURSIVE SumOver(_, _)
SumOver(f, S) == IF S = {} THEN 0
                 ELSE LET x == CHOOSE y \in S : TRUE
                      IN  Cardinality(f[x]) + SumOver(f, S \ {x})

BitCount(array) == SumOver(array, DOMAIN array)

---------------------------------------------------------------------------
(* C1 *)

\* C1: no two printed seeds (was_on_known_cycle = FALSE) have trajectories
\* that enter the same cycle of the generator.
C1_PrintedSeedsOnDistinctCycles ==
    \A i \in Printed : \A j \in Printed :
        i < j => ~SameCycle(out[i].seed, out[j].seed)

---------------------------------------------------------------------------
(* C2 *)

\* C2: when a seed Y is resolved (a step that appends to out): (a) if Y's
\* state has its bit set in a saved array, no trace is run and Y is returned
\* with was_on_known_cycle = TRUE and the length of the lowest-rank saved
\* array that has the bit; (b) for every earlier traced seed X whose record
\* (its length, and an array holding X's state) is still saved and whose
\* cycle Y enters, the length returned for Y is not shorter than X's.
C2_Step ==
    /\ (pc = "scan" /\ seed < SeedLimit
            /\ \E i \in Retained : HasState(i, seed_state(seed)))
       => LET first == CHOOSE i \in Retained :
                          /\ HasState(i, seed_state(seed))
                          /\ \A j \in Retained : HasState(j, seed_state(seed)) => i <= j
          IN  /\ out' = Append(out, [seed |-> seed,
                                     length |-> saved_cycle_lengths[first],
                                     was_on_known_cycle |-> TRUE])
              /\ pc' = "scan"
              /\ mem' = mem
    /\ (Len(out') = Len(out) + 1)
       => \A x \in 1 .. Len(out) :
             ( /\ ~out[x].was_on_known_cycle
               /\ \E k \in Retained : /\ saved_cycle_lengths[k] = out[x].length
                                      /\ HasState(k, seed_state(out[x].seed))
               /\ SameCycle(out[x].seed, out'[Len(out')].seed) )
             => out'[Len(out')].length >= out[x].length

\* C2: every step of the scan resolves its seed as C2_Step says: a seed whose
\* bit is set in a saved array is answered from the first such array without
\* a trace, and never with a length shorter than a retained record of its cycle.
C2_CachedLengthReported == [][C2_Step]_vars

\* A seed has been answered from a saved array that is not the first one.
C2_Witness ==
    \E j \in 1 .. Len(out) :
        /\ out[j].was_on_known_cycle
        /\ \E k \in Retained : k >= 1 /\ HasState(k, seed_state(out[j].seed))
        /\ \E x \in 1 .. (j - 1) : /\ ~out[x].was_on_known_cycle
                                   /\ SameCycle(out[x].seed, out[j].seed)
                                   /\ out[x].length = out[j].length

---------------------------------------------------------------------------
(* C3 *)

\* C3: any two distinct saved records are different vectors whose
\* fingerprints have no set bit in common.
C3_FingerprintsDisjoint ==
    \A i \in Retained : \A j \in Retained :
        i # j => /\ tested_cycle_bit_arrays[i] # tested_cycle_bit_arrays[j]
                 /\ \A w \in DOMAIN Fingerprint(i) :
                        Fingerprint(i)[w] \cap Fingerprint(j)[w] = {}

\* Two records of equal length are saved, and a seed of each cycle has been
\* answered from the cache.
C3_Witness ==
    /\ saved_array_count >= 2
    /\ saved_cycle_lengths[0] = saved_cycle_lengths[1]
    /\ \E j \in 1 .. Len(out) : out[j].was_on_known_cycle /\ HasState(0, seed_state(out[j].seed))
    /\ \E j \in 1 .. Len(out) : out[j].was_on_known_cycle /\ HasState(1, seed_state(out[j].seed))

---------------------------------------------------------------------------
(* C4 *)

\* C4: the stored lengths are non-increasing by rank.
C4_LengthsNonIncreasing ==
    \A i \in 0 .. (ARRAYS_TO_STORE - 2) :
        saved_cycle_lengths[i] >= saved_cycle_lengths[i + 1]

\* A record was inserted above two saved records of equal length, one of
\* which was moved down past the other (rank 2 holds an older block than
\* rank 0, rank 1 an older one than rank 2).
C4_Witness ==
    /\ saved_array_count >= 3
    /\ saved_cycle_lengths[0] > saved_cycle_lengths[1]
    /\ saved_cycle_lengths[1] = saved_cycle_lengths[2]
    /\ tested_cycle_bit_arrays[2] < tested_cycle_bit_arrays[1]
    /\ tested_cycle_bit_arrays[1] < tested_cycle_bit_arrays[0]

---------------------------------------------------------------------------
(* C5 *)

\* C5: at most ARRAYS_TO_STORE records are saved; ranks below
\* saved_array_count hold a non-null array and a length >= 1, the ranks from
\* saved_array_count on hold NULL and length 0.
C5_RecordsOccupyLowRanks ==
    /\ saved_array_count \in 0 .. ARRAYS_TO_STORE
    /\ \A i \in Ranks :
          IF i < saved_array_count
          THEN tested_cycle_bit_arrays[i] # NULL /\ saved_cycle_lengths[i] >= 1
          ELSE tested_cycle_bit_arrays[i] = NULL /\ saved_cycle_lengths[i] = 0

\* The cache is full and a record has been pushed out of it and freed.
C5_Witness ==
    /\ pc = "scan"
    /\ saved_array_count = ARRAYS_TO_STORE
    /\ freed # {}

---------------------------------------------------------------------------
(* C6 *)

\* C6: the largest saved length, saved_cycle_lengths[0], never decreases.
C6_MaxNeverDecreases ==
    [][saved_cycle_lengths'[0] >= saved_cycle_lengths[0]]_vars

\* The largest saved length has been replaced by a larger one.
C6_Witness ==
    /\ saved_array_count >= 2
    /\ saved_cycle_lengths[0] > saved_cycle_lengths[1]
    /\ tested_cycle_bit_arrays[0] > tested_cycle_bit_arrays[1]

---------------------------------------------------------------------------
(* C7 *)

\* C7: at most ARRAYS_TO_STORE + 1 vectors are allocated and not freed, and
\* each of them is the scratch vector or a saved array.
C7_NoVectorLeaked ==
    /\ Cardinality(Live) <= ARRAYS_TO_STORE + 1
    /\ Live \subseteq {cycle_bit_array} \cup {tested_cycle_bit_arrays[i] : i \in Ranks}

---------------------------------------------------------------------------
(* C8 *)

\* The generator has four states: three on one cycle of period 3 and one
\* that leads into it.
OnPeriod3 == {s \in States : Iter(s, 3) = s /\ gen[s] # s}

IsPeriod3WithTail ==
    /\ Cardinality(States) = 4
    /\ Cardinality(OnPeriod3) = 3
    /\ \A s \in States \ OnPeriod3 : gen[s] \in OnPeriod3

\* The seed of the state that leads into the cycle.
TailSeed == (CHOOSE s \in States \ OnPeriod3 : TRUE).a

\* C8 as claimed: every seed is returned with length 3, and every seed after
\* the first is answered from the cache without a trace.
C8_AllSeedsLength3 ==
    IsPeriod3WithTail =>
        \A i \in 1 .. Len(out) :
            /\ out[i].length = 3
            /\ (i > 1 => out[i].was_on_known_cycle)

\* C8 as amended: the seed of the tail state and every seed after it are
\* returned with length 4, the seeds before it with length 3; seed 0 and the
\* seed of the tail state are traced, every other seed is answered from the
\* cache.
C8_TailSeedLength4 ==
    IsPeriod3WithTail =>
        \A i \in 1 .. Len(out) :
            /\ out[i].length = (IF out[i].seed >= TailSeed THEN 4 ELSE 3)
            /\ out[i].was_on_known_cycle <=> (out[i].seed # 0 /\ out[i].seed # TailSeed)

\* The scan of such a generator is complete; the tail state's seed came
\* second, after the cycle had been saved with length 3.
C8_Witness ==
    /\ IsPeriod3WithTail
    /\ TailSeed = 1
    /\ pc = "done"
    /\ Len(out) = 4

---------------------------------------------------------------------------
(* C9 *)

\* The least n >= 1 for which the state after n advances has the key of the
\* state after some j < n advances.
RepeatsAt(st, n) ==
    \E j \in 0 .. (n - 1) : encode_state(Iter(st, n)) = encode_state(Iter(st, j))

FirstRepeat(st) ==
    CHOOSE n \in 1 .. POSSIBLE_STATES :
        RepeatsAt(st, n) /\ \A m \in 1 .. (n - 1) : ~RepeatsAt(st, m)

\* C9: when the trace loop has ended, length_counter is the number of
\* distinct states visited before the first repeat.
C9_TraceLength ==
    pc = "update" => length_counter = FirstRepeat(seed_state(seed))

\* A trace of three states has ended at a repeated state that is not the
\* state it started from.
C9_Witness ==
    /\ pc = "update"
    /\ collision
    /\ length_counter = 3
    /\ state # seed_state(seed)

---------------------------------------------------------------------------
(* C10 *)

\* The processor keeps running the trace loop.
FnFairSpec == InitFn /\ [][Next]_vars /\ WF_vars(TraceStep)

\* C10 as claimed: the loop always ends by observing a repeated key.
C10_EndsByCollision ==
    pc = "update" => collision

\* C10 as amended: the loop ends within POSSIBLE_STATES iterations; it ends
\* by observing a repeated key, unless the trajectory visits every state of
\* the state space: then it ends because the loop bound is exhausted, with
\* no collision observed and length_counter = POSSIBLE_STATES.
C10_LoopBound ==
    /\ pc = "trace" => length_counter < POSSIBLE_STATES
    /\ pc = "update" =>
          IF Cardinality(Trajectory(seed_state(seed))) < POSSIBLE_STATES
          THEN collision /\ length_counter < POSSIBLE_STATES
          ELSE ~collision /\ length_counter = POSSIBLE_STATES

\* C10 (amended): C10_LoopBound holds throughout, and a trace loop that has
\* been entered is left.
C10_TraceTerminates ==
    /\ []C10_LoopBound
    /\ (pc = "trace") ~> (pc = "update")

\* A trace has ended without a collision, having visited every state.
C10_Witness ==
    /\ pc = "update"
    /\ ~collision
    /\ length_counter = POSSIBLE_STATES

---------------------------------------------------------------------------
(* C11 *)

\* A step of the program as C11 allows it: a malloc that returns NULL (in
\* main, or for the replacement vector) ends the program at once with exit
\* status 1 (pc = "exit1", where the diagnostic has been printed): no block
\* is allocated, no seed is returned to main and the seed counter stands;
\* and once the program has exited no step follows.
C11_Step ==
    /\ pc # "exit1"
    /\ cycle_bit_array' = NULL => pc' = "exit1"
    /\ pc' = "exit1" => /\ cycle_bit_array' = NULL
                        /\ out' = out
                        /\ seed' = seed
                        /\ mem' = mem

\* C11: an allocation failure terminates the program with a non-zero status
\* at once; the allocation is not retried and no further seed is traced or
\* emitted.
C11_AllocationFailureIsFatal == [][C11_Step]_vars

\* The program has exited on the failure of a replacement allocation, after
\* seeds had been returned and records saved.
C11_Witness ==
    /\ pc = "exit1"
    /\ saved_array_count >= 2
    /\ Len(out) >= 1
    /\ seed < SeedLimit

---------------------------------------------------------------------------
(* sfc8_advance on its own *)

\* The values of a uint8_t, and the conversion of an int to it.
Byte == 0 .. 255

U8(x) == x % 256

\* The operators ^ and | on non-negative ints.
RECURSIVE BitXor(_, _)
BitXor(x, y) == IF x = 0 /\ y = 0 THEN 0
                ELSE (((x % 2) + (y % 2)) % 2) + 2 * BitXor(x \div 2, y \div 2)

RECURSIVE BitOr(_, _)
BitOr(x, y) == IF x = 0 /\ y = 0 THEN 0
               ELSE (IF x % 2 = 1 \/ y % 2 = 1 THEN 1 ELSE 0)
                    + 2 * BitOr(x \div 2, y \div 2)

\* Mutant: d is incremented before it is added into temp.
sfc8_advance_preincrement(st) ==
    LET temp == U8(st.a + st.b + U8(st.d + 1))
    IN  [a |-> U8(BitXor(st.b, st.b \div 4)),
         b |-> U8(st.c + st.c * 2),
         c |-> U8(temp + BitOr(st.c * 8, st.c \div 32)),
         d |-> U8(st.d + 1)]

\* Mutant: c is shifted left by 2, not 3.
sfc8_advance_shift2(st) ==
    LET temp == U8(st.a + st.b + st.d)
    IN  [a |-> U8(BitXor(st.b, st.b \div 4)),
         b |-> U8(st.c + st.c * 2),
         c |-> U8(temp + BitOr(st.c * 4, st.c \div 32)),
         d |-> U8(st.d + 1)]

\* The operands are promoted to int, every expression is computed in int
\* and converted to uint8_t when it is stored; each line reads the fields
\* as the lines before it left them (b and c are still the old ones where
\* they are read).
sfc8_advance(st) ==
    LET temp == U8(st.a + st.b + st.d)
    IN  [a |-> U8(BitXor(st.b, st.b \div 4)),
         b |-> U8(st.c + st.c * 2),
         c |-> U8(temp + BitOr(st.c * 8, st.c \div 32)),
         d |-> U8(st.d + 1)]

\* AdvSpec: sfc8_advance applied, up to MaxAdvances times in a row, to
\* states drawn from two families: every b with sampled a, c, d, and every c
\* with sampled a, b, d.
MaxAdvances == 2

ByteSamples == {0, 1, 128, 170, 255}

InitAdv ==
    /\ gen = <<>>
    /\ pc = "advance"
    /\ seed = 0
    /\ \E x \in ByteSamples, y \in Byte, z \in ByteSamples, w \in ByteSamples :
          \/ state = [a |-> x, b |-> y, c |-> z, d |-> w]
          \/ state = [a |-> x, b |-> z, c |-> y, d |-> w]
    /\ length_counter = 0
    /\ collision = FALSE
    /\ cycle_bit_array = NULL
    /\ tested_cycle_bit_arrays = [i \in Ranks |-> NULL]
    /\ saved_cycle_lengths = [i \in Ranks |-> 0]
    /\ saved_array_count = 0
    /\ mem = <<>>
    /\ freed = {}
    /\ out = <<>>

Advance ==
    /\ pc = "advance"
    /\ length_counter < MaxAdvances
    /\ state' = sfc8_advance(state)
    /\ length_counter' = length_counter + 1
    /\ UNCHANGED <<gen, pc, seed, collision, cycle_bit_array,
                   tested_cycle_bit_arrays, saved_cycle_lengths,
                   saved_array_count, mem, freed, out>>

NextAdv == Advance

AdvSpec == InitAdv /\ [][NextAdv]_vars

---------------------------------------------------------------------------
(* C12 *)

\* Bytes as sets of bit positions, for the reference below.
BitsOf(x, n) == {i \in 0 .. (n - 1) : (x \div (2 ^ i)) % 2 = 1}

RECURSIVE Val(_)
Val(S) == IF S = {} THEN 0
          ELSE LET i == CHOOSE j \in S : TRUE
               IN  (2 ^ i) + Val(S \ {i})

XorBits(S, T) == (S \ T) \cup (T \ S)

ShiftRight(S, n) == {i - n : i \in {j \in S : j >= n}}

RotateLeft8(S, n) == {(i + n) % 8 : i \in S}

\* The step as the specification gives it, all arithmetic modulo 256.
RefAdvance(st) ==
    LET t == (st.a + st.b + st.d) % 256
    IN  [a |-> Val(XorBits(BitsOf(st.b, 8), ShiftRight(BitsOf(st.b, 8), 2))),
         b |-> (st.c + ((2 * st.c) % 256)) % 256,
         c |-> (t + Val(RotateLeft8(BitsOf(st.c, 8), 3))) % 256,
         d |-> (st.d + 1) % 256]

\* C12: sfc8_advance computes, modulo 256, t = a + b + d from the d before
\* the increment, a' = b XOR (b >> 2), b' = c + (c << 1),
\* c' = t + rotate_left(c, 3) from the old c, and d' = d + 1.
C12_AdvanceIsReference ==
    [][pc = "advance" => state' = RefAdvance(state)]_vars

\* The one step from a = b = c = d = 255, where the sum, the tripling, the
\* addition of the rotated c and the increment of d all wrap around.
C12_Witness ==
    /\ pc = "advance"
    /\ length_counter = 1
    /\ state = [a |-> 192, b |-> 253, c |-> 252, d |-> 0]

---------------------------------------------------------------------------
(* encode_state on its own *)

\* A 32-bit key as the set of its set bit positions: the keys of states with
\* d >= 128 do not fit the integers of the model.
ShiftLeft(S, n) == {i + n : i \in S}

\* Mutant: c is shifted by 8, onto the bits of b.
encode_bits_c_onto_b(st) ==
    LET result0 == BitsOf(st.a, 8)
        result1 == result0 \cup ShiftLeft(BitsOf(st.b, 8), 8)
        result2 == result1 \cup ShiftLeft(BitsOf(st.c, 8), 8)
        result3 == result2 \cup ShiftLeft(BitsOf(st.d, 8), 24)
    IN  result3

\* encode_state, bit by bit.  state->d << 24 is computed in int and is not
\* representable there for d >= 128; the result is the one two's complement
\* builds give, which the conversion to uint32_t keeps bit for bit.
encode_bits(st) ==
    LET result0 == BitsOf(st.a, 8)
        result1 == result0 \cup ShiftLeft(BitsOf(st.b, 8), 8)
        result2 == result1 \cup ShiftLeft(BitsOf(st.c, 8), 16)
        result3 == result2 \cup ShiftLeft(BitsOf(st.d, 8), 24)
    IN  result3

\* EncSpec: encode_state applied once to a state whose fields are drawn from
\* EncSamples; the key returned is kept in out.
EncSamples == {0, 1, 127, 128, 255}

EncStates ==
    {[a |-> x, b |-> y, c |-> z, d |-> w] :
        x \in EncSamples, y \in EncSamples, z \in EncSamples, w \in EncSamples}

InitEnc ==
    /\ gen = <<>>
    /\ pc = "encode"
    /\ seed = 0
    /\ state \in EncStates
    /\ length_counter = 0
    /\ collision = FALSE
    /\ cycle_bit_array = NULL
    /\ tested_cycle_bit_arrays = [i \in Ranks |-> NULL]
    /\ saved_cycle_lengths = [i \in Ranks |-> 0]
    /\ saved_array_count = 0
    /\ mem = <<>>
    /\ freed = {}
    /\ out = <<>>

Encode ==
    /\ pc = "encode"
    /\ pc' = "encoded"
    /\ out' = <<encode_bits(state)>>
    /\ UNCHANGED <<gen, seed, state, length_counter, collision,
                   cycle_bit_array, tested_cycle_bit_arrays,
                   saved_cycle_lengths, saved_array_count, mem, freed>>

NextEnc == Encode

EncSpec == InitEnc /\ [][NextEnc]_vars

---------------------------------------------------------------------------
(* C13 *)

\* The byte a key holds in bits lo .. lo+7, and the state a key decodes to.
KeyField(key, lo) == Val({i - lo : i \in {j \in key : lo <= j /\ j <= lo + 7}})

decode_key(key) ==
    [a |-> KeyField(key, 0), b |-> KeyField(key, 8),
     c |-> KeyField(key, 16), d |-> KeyField(key, 24)]

\* C13: the key of a state is a 32-bit value holding a, b, c, d in bits 0-7,
\* 8-15, 16-23, 24-31, so that decoding it gives the state back; no other
\* state has the same key; and a key that was not computed from the state
\* (here the complement of the state's key) is the key of the state it
\* decodes to.  Where the key fits an integer it is the integer
\* encode_state computes.
C13_EncodeIsBijection ==
    pc = "encoded" =>
        LET key == out[1]
            other == (0 .. 31) \ key
        IN  /\ key \subseteq 0 .. 31
            /\ KeyField(key, 0) = state.a
            /\ KeyField(key, 8) = state.b
            /\ KeyField(key, 16) = state.c
            /\ KeyField(key, 24) = state.d
            /\ decode_key(key) = state
            /\ \A st \in EncStates : encode_bits(st) = key => st = state
            /\ decode_key(other) \in [a : Byte, b : Byte, c : Byte, d : Byte]
            /\ encode_bits(decode_key(other)) = other
            /\ state.d < 128 => Val(key) = encode_state(state)

\* A key has been computed for a state with d >= 128, whose bit 31 is set.
C13_Witness ==
    /\ pc = "encoded"
    /\ state.d >= 128
    /\ state.a = 255
    /\ state.b = 1
    /\ 31 \in out[1]

---------------------------------------------------------------------------
(* test_and_set_bit and test_bit on their own *)

\* BitSpec: up to MaxBitOps calls of test_and_set_bit and test_bit, each at
\* the key of a state drawn from BitStates, on one vector whose words start
\* empty, with one bit set, or full.  collision holds the value returned.
MaxBitOps == 3

BitStates == {[a |-> x, b |-> y, c |-> 0, d |-> 0] : x \in {0, 63, 64}, y \in {0, 1}}

BitWords == {WORD_INDEX(encode_state(st)) : st \in BitStates}

InitBits ==
    /\ gen = <<>>
    /\ pc = "bits"
    /\ seed = 0
    /\ state \in BitStates
    /\ length_counter = 0
    /\ collision = FALSE
    /\ cycle_bit_array = 1
    /\ tested_cycle_bit_arrays = [i \in Ranks |-> NULL]
    /\ saved_cycle_lengths = [i \in Ranks |-> 0]
    /\ saved_array_count = 0
    /\ \E v \in [BitWords -> {{}, {5}, 0 .. 63}] : mem = <<v>>
    /\ freed = {}
    /\ out = <<>>

BitTestAndSet ==
    /\ pc \in {"bits", "set", "tested"}
    /\ length_counter < MaxBitOps
    /\ \E st \in BitStates :
          LET r == test_and_set_bit(mem[cycle_bit_array], encode_state(st))
          IN  /\ state' = st
              /\ mem' = [mem EXCEPT ![cycle_bit_array] = r.array]
              /\ collision' = r.result
    /\ pc' = "set"
    /\ length_counter' = length_counter + 1
    /\ UNCHANGED <<gen, seed, cycle_bit_array, tested_cycle_bit_arrays,
                   saved_cycle_lengths, saved_array_count, freed, out>>

BitTest ==
    /\ pc \in {"bits", "set", "tested"}
    /\ length_counter < MaxBitOps
    /\ \E st \in BitStates :
          /\ state' = st
          /\ collision' = test_bit(mem[cycle_bit_array], encode_state(st))
    /\ pc' = "tested"
    /\ length_counter' = length_counter + 1
    /\ UNCHANGED <<gen, seed, cycle_bit_array, tested_cycle_bit_arrays,
                   saved_cycle_lengths, saved_array_count, mem, freed, out>>

NextBits == BitTestAndSet \/ BitTest

BitSpec == InitBits /\ [][NextBits]_vars

---------------------------------------------------------------------------
(* C14 *)

\* Bit k of a vector, k counted through the words from bit 0 of word 0.
BitAt(array, k) == \E w \in DOMAIN array : \E b \in array[w] : 64 * w + b = k

\* A call at key k = encode_state(state') as C14 allows it.
C14_Step ==
    LET k == encode_state(state')
        old == mem[cycle_bit_array]
        new == mem'[cycle_bit_array]
    IN  /\ pc' = "set" =>
              /\ collision' = BitAt(old, k)
              /\ BitAt(new, k)
              /\ DOMAIN new = DOMAIN old
              /\ \A w \in DOMAIN old : \A b \in 0 .. 63 :
                    64 * w + b # k => (b \in new[w] <=> b \in old[w])
        /\ pc' = "tested" =>
              /\ collision' = BitAt(old, k)
              /\ new = old
        /\ (pc = "set" /\ state' = state) => collision'

\* C14: test_and_set_bit returns the value bit k had, leaves bit k set and
\* every other bit as it was; test_bit returns bit k and changes nothing;
\* so a test_bit or a test_and_set_bit that follows a test_and_set_bit at
\* the same key returns true.
C14_BitOperations == [][C14_Step]_vars

\* The only bit set is bit 319 (bit 63 of word 4), which no starting vector
\* has alone: test_and_set_bit set it in an empty vector, and the test_bit
\* that followed at the same key returned true.
C14_Witness ==
    /\ pc = "tested"
    /\ length_counter = 2
    /\ collision
    /\ encode_state(state) = 319
    /\ BitCount(mem[cycle_bit_array]) = 1

---------------------------------------------------------------------------
(* update_tested_cycles on its own *)

\* CacheSpec: update_tested_cycles is called, as test_seed_for_cycle calls
\* it, up to MaxCalls times with lengths chosen freely from 1 .. MaxLen in
\* place of the lengths traces would give.  No generator state is involved,
\* so the vectors have no words.
MaxLen == 3

MaxCalls == 8

InitCache == InitWith(<<>>)

\* A trace that ends with any length: the scratch vector is cleared and the
\* loop leaves a length >= 1 in length_counter.
ArbitraryTrace ==
    /\ pc = "scan"
    /\ seed < MaxCalls
    /\ mem' = [mem EXCEPT ![cycle_bit_array] = ZeroVector]
    /\ \E n \in 1 .. MaxLen : length_counter' = n
    /\ pc' = "update"
    /\ UNCHANGED <<gen, seed, state, collision, cycle_bit_array,
                   tested_cycle_bit_arrays, saved_cycle_lengths,
                   saved_array_count, freed, out>>

NextCache ==
    \/ MainAlloc
    \/ ArbitraryTrace
    \/ UpdateAndReturn

CacheSpec == InitCache /\ [][NextCache]_vars

---------------------------------------------------------------------------
(* C15 *)

\* What test_seed_for_cycle sees of the value update_tested_cycles returned:
\* on true it replaces cycle_bit_array (by a new block, or by NULL).
C15_Returned == cycle_bit_array' # cycle_bit_array

C15_CacheUnchanged ==
    /\ tested_cycle_bit_arrays' = tested_cycle_bit_arrays
    /\ saved_cycle_lengths' = saved_cycle_lengths
    /\ saved_array_count' = saved_array_count
    /\ \A i \in Retained : mem'[tested_cycle_bit_arrays[i]] = Fingerprint(i)

C15_NotGreaterThanAny ==
    \A i \in Retained : length_counter <= saved_cycle_lengths[i]

\* C15 as claimed: a candidate that is not strictly greater than the length
\* of any record held (at least one being held) changes nothing and false is
\* returned, whether or not the cache is full; true is returned exactly when
\* the cache changed.
C15_NoChangeUnlessGreater ==
    [][pc = "update" =>
          /\ (saved_array_count >= 1 /\ C15_NotGreaterThanAny)
                => (C15_CacheUnchanged /\ ~C15_Returned)
          /\ C15_Returned <=> ~C15_CacheUnchanged]_vars

\* C15 (amended): with a full cache, a candidate that is not strictly
\* greater than the length of any record held changes nothing and false is
\* returned; with a cache that is not full every candidate is stored, the
\* count grows by one and true is returned; true is returned exactly when
\* the cache changed.
C15_NoChangeWhenFullAndNotGreater ==
    [][pc = "update" =>
          /\ (saved_array_count = ARRAYS_TO_STORE /\ C15_NotGreaterThanAny)
                => (C15_CacheUnchanged /\ ~C15_Returned)
          /\ saved_array_count < ARRAYS_TO_STORE
                => (C15_Returned /\ saved_array_count' = saved_array_count + 1)
          /\ C15_Returned <=> ~C15_CacheUnchanged]_vars

\* Eight calls have returned and only eight blocks were ever allocated: the
\* first seven calls filled the cache, and the eighth, with a length not
\* above the last record's, returned false.
C15_Witness ==
    /\ pc = "scan"
    /\ seed = 8
    /\ saved_array_count = ARRAYS_TO_STORE
    /\ length_counter <= saved_cycle_lengths[ARRAYS_TO_STORE - 1]
    /\ Cardinality(DOMAIN mem) = 8
    /\ freed = {}

---------------------------------------------------------------------------
(* C16 *)

\* The reference: the first rank whose stored length is strictly smaller
\* than the candidate (ARRAYS_TO_STORE if there is none; an empty rank
\* stores 0), the candidate inserted there, the records from there on moved
\* down one rank, the result cut to ARRAYS_TO_STORE entries.
RefRank(lengths, candidate) ==
    IF \E i \in Ranks : lengths[i] < candidate
    THEN CHOOSE i \in Ranks : /\ lengths[i] < candidate
                              /\ \A j \in Ranks : lengths[j] < candidate => i <= j
    ELSE ARRAYS_TO_STORE

RefInsert(lengths, candidate) ==
    LET r == RefRank(lengths, candidate)
    IN  [i \in Ranks |-> IF i < r THEN lengths[i]
                         ELSE IF i = r THEN candidate
                         ELSE lengths[i - 1]]

\* C16: from a cache with non-increasing lengths and a candidate >= 1, the
\* stored lengths after update_tested_cycles are the reference result.
C16_LengthsAreReferenceInsert ==
    [][(/\ pc = "update"
        /\ length_counter >= 1
        /\ \A i, j \in Ranks : i <= j => saved_cycle_lengths[i] >= saved_cycle_lengths[j])
       => saved_cycle_lengths' = RefInsert(saved_cycle_lengths, length_counter)]_vars

\* The eighth call, with the candidate 3 on a full cache: the record of
\* length 2 it displaced passed the records of its own length and displaced
\* a record of length 1, which was dropped at the ranks below without being
\* freed.  The lengths are now 3 3 2 2 2 1 1.
C16_Witness ==
    /\ pc = "scan"
    /\ seed = 8
    /\ saved_cycle_lengths = [i \in Ranks |-> IF i <= 2 THEN 3 ELSE IF i <= 4 THEN 2 ELSE 1]
    /\ length_counter = 3
    /\ Cardinality(DOMAIN mem) = 9
    /\ freed = {}

---------------------------------------------------------------------------
(* C17 *)

\* The blocks the cache slots in use point to.
CachedBlocks == {tested_cycle_bit_arrays[i] : i \in Retained}

\* At the start of a trace: scratch and cached vectors are allocated and
\* not freed, the scratch vector is no cached one, and no two slots hold
\* the same vector.
C17_AtTraceStart ==
    /\ cycle_bit_array \in Live
    /\ CachedBlocks \subseteq Live
    /\ cycle_bit_array \notin CachedBlocks
    /\ \A i, j \in Retained :
          tested_cycle_bit_arrays[i] = tested_cycle_bit_arrays[j] => i = j

\* C17: every step that begins a trace begins it in such a state, and no
\* step changes a bit of a vector that is cached before and after it, nor
\* of the scratch vector it moves into the cache.
C17_FingerprintsNotAliased ==
    [][/\ pc' = "trace" => C17_AtTraceStart'
       /\ \A b \in CachedBlocks' :
             (b \in CachedBlocks \/ (pc = "update" /\ b = cycle_bit_array))
                => mem'[b] = mem[b]]_vars

\* A trace begins with a full cache after a record was evicted and its
\* vector freed.
C17_Witness ==
    /\ pc = "trace"
    /\ length_counter = 0
    /\ saved_array_count = ARRAYS_TO_STORE
    /\ freed # {}
    /\ Cardinality(DOMAIN mem) >= ARRAYS_TO_STORE + 2

---------------------------------------------------------------------------
(* C18 *)

\* C18: when a trace begins (the loop is entered with length_counter = 0)
\* the scratch vector has a word for every state's key and no bit set.
C18_ScratchClearedAtTraceStart ==
    (pc = "trace" /\ length_counter = 0) =>
        /\ DOMAIN mem[cycle_bit_array] = Words
        /\ \A w \in Words : mem[cycle_bit_array][w] = {}

\* The ninth trace begins on the scratch vector an earlier trace filled
\* without being retained: eight traces were run and seven retained (eight
\* blocks were allocated in all).
C18_Witness ==
    /\ pc = "trace"
    /\ length_counter = 0
    /\ Cardinality(Printed) = 8
    /\ Cardinality(DOMAIN mem) = 8
    /\ cycle_bit_array = 8

---------------------------------------------------------------------------
(* C19 *)

\* AdvFnSpec: the runs of AdvSpec, where sfc8_advance itself is applied, and
\* the runs of FnSpec, where the scan runs over every function on FnDomain,
\* the permutations among them.
InitAdvFn == InitFn \/ InitAdv

NextAdvFn == Next \/ NextAdv

AdvFnSpec == InitAdvFn /\ [][NextAdvFn]_vars

\* The step back: d - 1; c from b' = 3c (3 * 171 = 513); b from
\* a' = b XOR (b >> 2), undone by XOR-ing the shifts by 2, 4 and 6; a from
\* c' = a + b + d + rotate_left(c, 3).
sfc8_retreat(st) ==
    LET d == (st.d + 255) % 256
        c == (171 * st.b) % 256
        y == BitsOf(st.a, 8)
        b == Val(XorBits(XorBits(y, ShiftRight(y, 2)),
                         XorBits(ShiftRight(y, 4), ShiftRight(y, 6))))
        a == (st.c + 768 - Val(RotateLeft8(BitsOf(c, 8), 3)) - b - d) % 256
    IN  [a |-> a, b |-> b, c |-> c, d |-> d]

IsInjective(g) == \A s, t \in DOMAIN g : g[s] = g[t] => s = t

\* C19: sfc8_advance is undone by sfc8_retreat, so no two states have the
\* same successor; and under a generator that is injective, the trace of a
\* seed leaves its loop back at the seed's own state, with the number of
\* states of the seed's cycle as its length.
C19_Step ==
    /\ pc = "advance" => sfc8_retreat(state') = state
    /\ (pc' = "update" /\ IsInjective(gen)) =>
          /\ state' = seed_state(seed)
          /\ seed_state(seed) \in CycleOf(seed_state(seed))
          /\ length_counter' = Cardinality(CycleOf(seed_state(seed)))

C19_TraceMeasuresCycle == [][C19_Step]_vars

\* Under a permutation, a trace has ended by finding the bit of its starting
\* state set after three steps, with another seed's cycle already saved.
C19_Witness ==
    /\ pc = "update"
    /\ IsInjective(gen)
    /\ collision
    /\ length_counter = 3
    /\ seed >= 1
    /\ saved_array_count = 1

---------------------------------------------------------------------------
(* C20 *)

\* C20: every retained record's fingerprint has as many bits set as the
\* record's stored length says.
C20_FingerprintMatchesLength ==
    \A i \in Retained : BitCount(Fingerprint(i)) = saved_cycle_lengths[i]

\* Eight traces were retained by a cache of seven and nothing was freed: a
\* cascade moved records down past records of equal length and dropped the
\* one it carried.  Two of the records held have the same length.
C20_Witness ==
    /\ pc = "scan"
    /\ saved_array_count = ARRAYS_TO_STORE
    /\ Cardinality(DOMAIN mem) = ARRAYS_TO_STORE + 2
    /\ freed = {}
    /\ \E i \in Retained : i >= 1 /\ saved_cycle_lengths[i] = saved_cycle_lengths[i - 1]
    /\ \E i \in Retained : i >= 1 /\ saved_cycle_lengths[i] < saved_cycle_lengths[i - 1]

===========================================================================
